---- MODULE Spec2Model ----
(***************************************************************************)
(* Model of src/index.jsx (scrunch): the row compaction performed by       *)
(* processImage, and the debounced effect of the App component that calls  *)
(* it.                                                                     *)
(*                                                                         *)
(*   Spec     processImage called directly (it is exported) on a decoded   *)
(*            image, with arbitrary arguments; one action per loop         *)
(*            iteration of the row loop and per later step.                *)
(*   SpecApp  the App component: file input, range input, the effect with  *)
(*            its module-level timer handle, and the asynchronous          *)
(*            processImage calls the timers start.                         *)
(***************************************************************************)
EXTENDS Integers, Sequences, FiniteSets, TLC

(* ------------------------------ bounds -------------------------------- *)
MaxPixels == 5
MaxThreshold == 2
MaxChanges == 2

(* ------------------------- program constants -------------------------- *)
channels == 4
DefaultQuantizationFactor == 16
InitialMaxDifferentPixels == 5
RangeMin == 0
RangeMax == 100

null == [kind |-> "none"]

(* RGBA pixels the input images are built from.  At factor 16 the three    *)
(* have three different keys; at factor 1 the first two have different     *)
(* quantized triples.                                                      *)
Palette == { <<0, 16, 0, 255>>, <<1, 0, 0, 128>>, <<255, 255, 255, 0>> }

QuantizationFactors == {0, 1, DefaultQuantizationFactor}
Thresholds == (-1) .. MaxThreshold

VARIABLES
  \* ---- one processImage activation (Spec) ----
  width, height, data,        \* canvas size and imageData.data (line 117-119)
  pMaxDifferentPixels,        \* parameter maxDifferentPixels
  pQuantizationFactor,        \* parameter quantizationFactor
  pc,                         \* position in processImage
  y,                          \* row loop variable
  nonBlankRows,               \* bytes pushed so far
  keptRows,                   \* history: indices of the rows pushed
  newHeight,                  \* line 158
  result,                     \* what the returned promise settled with
  previous,                   \* history: outcome of the preceding activation on the same image
  \* ---- App (SpecApp) ----
  inputImageBuffer, outputImageBlob, maxDifferentPixels,
  timeout,                    \* module-level timer handle (line 10)
  timers,                     \* timers scheduled and not yet fired or cleared
  reads,                      \* FileReader reads in flight
  calls,                      \* processImage activations in flight
  nextId,                     \* source of fresh timer / buffer identities
  changes,                    \* history: number of state changes seen by the effect
  started,                    \* history: (buffer, threshold, change) of every started call
  errorLog                    \* history: console.error calls

coreVars == <<width, height, data, pMaxDifferentPixels, pQuantizationFactor, pc, y,
              nonBlankRows, keptRows, newHeight, result, previous>>
appVars == <<inputImageBuffer, outputImageBlob, maxDifferentPixels, timeout, timers,
             reads, calls, nextId, changes, started, errorLog>>
vars == <<coreVars, appVars>>

RECURSIVE Flatten(_, _)
Flatten(px, k) == IF k > Len(px) THEN <<>> ELSE px[k] \o Flatten(px, k + 1)

(* ------------------------- pixel key (132-137) ------------------------ *)
RECURSIVE BitOr(_, _)
BitOr(a, b) ==
  IF a = 0 THEN b
  ELSE IF b = 0 THEN a
  ELSE (IF a % 2 = 1 \/ b % 2 = 1 THEN 1 ELSE 0) + 2 * BitOr(a \div 2, b \div 2)

\* pixelValue << 4; with byte channels the packed value stays below 2^16, so
\* the 32-bit width of << is never reached
ShiftLeft4(v) == v * 16

\* Math.floor(byte / quantizationFactor) as the int32 operand that | sees:
\* for factor 0 the quotient is Infinity or NaN, which ToInt32 maps to 0.
Quantize(byte, q) == IF q = 0 THEN 0 ELSE byte \div q

\* data[i] of the 0-based Uint8ClampedArray
At(d, i) == d[i + 1]

RECURSIVE PackChannels(_, _, _, _, _)
PackChannels(d, pixelStart, q, c, pixelValue) ==
  IF c >= channels - 1 THEN pixelValue
  ELSE PackChannels(d, pixelStart, q, c + 1,
                    BitOr(ShiftLeft4(pixelValue), Quantize(At(d, pixelStart + c), q)))

PixelValue(d, pixelStart, q) == PackChannels(d, pixelStart, q, 0, 0)

(* ----------------------- row scan (126-143) --------------------------- *)
ShouldBreakEarly(uniquePixels, n) == Cardinality(uniquePixels) >= n

\* line 140
ShouldBreak(uniquePixels, n) == Cardinality(uniquePixels) > n

RECURSIVE ScanFrom(_, _, _, _, _, _, _)
ScanFrom(d, w, rowStart, n, q, x, uniquePixels) ==
  IF x >= w THEN uniquePixels
  ELSE LET u == uniquePixels \cup {PixelValue(d, rowStart + x * channels, q)}
       IN IF ShouldBreak(u, n) THEN u
          ELSE ScanFrom(d, w, rowStart, n, q, x + 1, u)

\* the set uniquePixels when the inner loop of row yy is left
ScanRow(d, w, yy, n, q) == ScanFrom(d, w, yy * w * channels, n, q, 0, {})

IsNonBlankInclusive(uniquePixels, n) == Cardinality(uniquePixels) >= n

IsNonBlankInverted(uniquePixels, n) == Cardinality(uniquePixels) < n

\* line 146
IsNonBlank(uniquePixels, n) == Cardinality(uniquePixels) > n

\* data[rowStart .. rowEnd-1] (147-150)
RowBytes(d, w, yy) == SubSeq(d, yy * w * channels + 1, (yy + 1) * w * channels)

\* one iteration of the row loop applied to the accumulator (125-152)
PushRow(acc, d, w, yy, n, q) ==
  IF IsNonBlank(ScanRow(d, w, yy, n, q), n) THEN acc \o RowBytes(d, w, yy) ELSE acc

RECURSIVE RowLoop(_, _, _, _, _, _, _)
RowLoop(acc, d, w, h, n, q, yy) ==
  IF yy >= h THEN acc ELSE RowLoop(PushRow(acc, d, w, yy, n, q), d, w, h, n, q, yy + 1)

\* line 158
NewHeight(rows, w) == Len(rows) \div (w * channels)

\* createImageData(width, newHeight) (line 163): the canvas API throws
\* IndexSizeError when either dimension is zero.
CreateImageDataThrows(w, nh) == w = 0 \/ nh = 0

(* ----------------------------- Spec ----------------------------------- *)
Buffers(w, h) == { Flatten(f, 1) : f \in [1 .. w * h -> Palette] }

AppIdle ==
  /\ inputImageBuffer = null /\ outputImageBlob = null
  /\ maxDifferentPixels = InitialMaxDifferentPixels
  /\ timeout = 0 /\ timers = {} /\ reads = {} /\ calls = {}
  /\ nextId = 1 /\ changes = 0 /\ started = <<>> /\ errorLog = <<>>

\* state after line 122 of an activation of processImage
Init ==
  /\ width \in 1 .. MaxPixels
  /\ height \in 1 .. MaxPixels \div width
  /\ data \in Buffers(width, height)
  /\ pMaxDifferentPixels \in Thresholds
  /\ pQuantizationFactor \in QuantizationFactors
  /\ pc = "rows" /\ y = 0 /\ nonBlankRows = <<>> /\ keptRows = <<>>
  /\ newHeight = -1 /\ result = null /\ previous = <<>>
  /\ AppIdle

\* one iteration of the loop at line 125
RowIteration ==
  /\ pc = "rows" /\ y < height
  /\ nonBlankRows' = PushRow(nonBlankRows, data, width, y, pMaxDifferentPixels, pQuantizationFactor)
  /\ keptRows' = IF nonBlankRows' # nonBlankRows THEN Append(keptRows, y) ELSE keptRows
  /\ y' = y + 1
  /\ UNCHANGED <<width, height, data, pMaxDifferentPixels, pQuantizationFactor, pc,
                 newHeight, result, previous, appVars>>

\* lines 155-167; a throw is caught at 173, logged and rethrown
CreateOutput ==
  /\ pc = "rows" /\ y >= height
  /\ newHeight' = NewHeight(nonBlankRows, width)
  /\ IF CreateImageDataThrows(width, newHeight')
       THEN pc' = "failed" /\ result' = [kind |-> "rejected"]
       ELSE pc' = "encode" /\ result' = result
  /\ UNCHANGED <<width, height, data, pMaxDifferentPixels, pQuantizationFactor, y,
                 nonBlankRows, keptRows, previous, appVars>>

\* lines 170-172: toBlob calls back and the promise resolves
ToBlob ==
  /\ pc = "encode"
  /\ pc' = "done"
  /\ result' = [kind |-> "blob", width |-> width, height |-> newHeight, bytes |-> nonBlankRows]
  /\ UNCHANGED <<width, height, data, pMaxDifferentPixels, pQuantizationFactor, y,
                 nonBlankRows, keptRows, newHeight, previous, appVars>>

Outcome ==
  [n |-> pMaxDifferentPixels, kept |-> keptRows, height |-> newHeight,
   bytes |-> nonBlankRows, kind |-> result.kind]

\* the caller invokes processImage again on the same image with a raised threshold
CallAgain(n) ==
  /\ pc \in {"done", "failed"}
  /\ n > pMaxDifferentPixels
  /\ previous' = <<Outcome>>
  /\ pMaxDifferentPixels' = n
  /\ pc' = "rows" /\ y' = 0 /\ nonBlankRows' = <<>> /\ keptRows' = <<>>
  /\ newHeight' = -1 /\ result' = null
  /\ UNCHANGED <<width, height, data, pQuantizationFactor, appVars>>

Next ==
  \/ RowIteration
  \/ CreateOutput
  \/ ToBlob
  \/ \E n \in Thresholds : CallAgain(n)

Spec == Init /\ [][Next]_vars

(* ------------------- reference notions for the claims ------------------ *)
PixelStarts(w, yy) == { (yy * w + x) * channels : x \in 0 .. w - 1 }

\* distinct packed keys of a whole row
DistinctKeys(d, w, yy, q) == { PixelValue(d, ps, q) : ps \in PixelStarts(w, yy) }

\* the quantized triple of a pixel, for q > 0
Triple(d, ps, q) == << At(d, ps) \div q, At(d, ps + 1) \div q, At(d, ps + 2) \div q >>

DistinctTriples(d, w, yy, q) == { Triple(d, ps, q) : ps \in PixelStarts(w, yy) }

RECURSIVE ConcatRows(_, _, _, _, _)
ConcatRows(d, w, S, yy, upTo) ==
  IF yy >= upTo THEN <<>>
  ELSE (IF yy \in S THEN RowBytes(d, w, yy) ELSE <<>>) \o ConcatRows(d, w, S, yy + 1, upTo)

Range(sq) == { sq[k] : k \in 1 .. Len(sq) }

ContentRows(n, q, upTo) ==
  { yy \in 0 .. upTo - 1 : Cardinality(DistinctKeys(data, width, yy, q)) > n }

LoopDone == pc \in {"encode", "done", "failed"}

(* C1: with the default factor 16 and a threshold >= 0, after y iterations *)
(* the bytes pushed are exactly the unmodified rows below y with more than *)
(* maxDifferentPixels distinct keys, concatenated in increasing row order; *)
(* a row with exactly maxDifferentPixels keys is not among them; once the  *)
(* loop is over newHeight is the number of those rows and the blob keeps   *)
(* the input width.                                                        *)
C1_RowLoopOutput ==
  (pQuantizationFactor = DefaultQuantizationFactor /\ pMaxDifferentPixels >= 0) =>
    LET S == ContentRows(pMaxDifferentPixels, pQuantizationFactor, y) IN
      /\ nonBlankRows = ConcatRows(data, width, S, 0, y)
      /\ Range(keptRows) = S
      /\ \A yy \in 0 .. y - 1 :
           Cardinality(DistinctKeys(data, width, yy, pQuantizationFactor)) = pMaxDifferentPixels
             => yy \notin Range(keptRows)
      /\ LoopDone => newHeight = Cardinality(S)
      /\ pc = "done" => result.width = width /\ result.height = Cardinality(S)
                        /\ result.bytes = nonBlankRows

C1_Witness ==
  /\ pc = "done" /\ pQuantizationFactor = DefaultQuantizationFactor
  /\ pMaxDifferentPixels >= 1 /\ height = 2
  /\ Cardinality(DistinctKeys(data, width, 0, pQuantizationFactor)) = pMaxDifferentPixels
  /\ keptRows = <<1>>

AllRowsAbove(n, q) ==
  \A yy \in 0 .. height - 1 : Cardinality(DistinctTriples(data, width, yy, q)) > n

AllRowsAtMost(n, q) ==
  \A yy \in 0 .. height - 1 : Cardinality(DistinctTriples(data, width, yy, q)) <= n

(* C2: if every row has more than maxDifferentPixels distinct quantized    *)
(* triples (any factor > 0, threshold >= 0), the row loop outputs the      *)
(* input bytes unchanged and newHeight = height.                           *)
C2_AllContent ==
  (/\ LoopDone /\ pQuantizationFactor > 0 /\ pMaxDifferentPixels >= 0
   /\ AllRowsAbove(pMaxDifferentPixels, pQuantizationFactor))
    => nonBlankRows = data /\ newHeight = height

(* C3: if every row has at most maxDifferentPixels distinct quantized      *)
(* triples, nothing is pushed, newHeight is 0, and processImage ends       *)
(* normally with that empty result instead of failing.                     *)
C3_AllBlank ==
  (/\ pQuantizationFactor > 0 /\ pMaxDifferentPixels >= 0
   /\ AllRowsAtMost(pMaxDifferentPixels, pQuantizationFactor))
    => /\ nonBlankRows = <<>>
       /\ LoopDone => newHeight = 0
       /\ pc # "failed"
       /\ pc = "done" => result.kind = "blob" /\ result.height = 0 /\ result.bytes = <<>>

Outcomes == Range(previous) \cup (IF LoopDone THEN {Outcome} ELSE {})

(* C4: for two passes over the same image with the same factor and         *)
(* thresholds a <= b, the height at b is at most the height at a and every *)
(* row kept at b is kept at a.                                             *)
C4_Monotone ==
  \A oa \in Outcomes : \A ob \in Outcomes :
    oa.n <= ob.n => ob.height <= oa.height /\ Range(ob.kept) \subseteq Range(oa.kept)

C4_Witness ==
  /\ LoopDone /\ previous # <<>>
  /\ previous[1].n >= 0
  /\ previous[1].height = 2 /\ newHeight = 1

(* C7: arguments violating the preconditions (factor not > 0, threshold    *)
(* not >= 0) make processImage fail; it never resolves with a buffer.      *)
C7_PreconditionFailure ==
  (pQuantizationFactor <= 0 \/ pMaxDifferentPixels < 0) =>
     pc # "encode" /\ pc # "done" /\ result.kind # "blob"

\* the variant without early exit: every pixel of every row is scanned and the
\* full count is compared afterwards
RECURSIVE FullScanLoop(_, _, _, _, _, _, _)
FullScanLoop(acc, d, w, upTo, n, q, yy) ==
  IF yy >= upTo THEN acc
  ELSE FullScanLoop(IF Cardinality(DistinctKeys(d, w, yy, q)) > n
                      THEN [bytes |-> acc.bytes \o RowBytes(d, w, yy), kept |-> Append(acc.kept, yy)]
                      ELSE acc,
                    d, w, upTo, n, q, yy + 1)

FullScan(upTo) ==
  FullScanLoop([bytes |-> <<>>, kept |-> <<>>], data, width, upTo,
               pMaxDifferentPixels, pQuantizationFactor, 0)

(* C8: for every factor > 0 and threshold >= 0 the loop with early exit    *)
(* has kept the same rows and pushed the same bytes as the full-scan       *)
(* variant, after every iteration.                                         *)
C8_EarlyExitEquivalent ==
  (pQuantizationFactor > 0 /\ pMaxDifferentPixels >= 0) =>
     keptRows = FullScan(y).kept /\ nonBlankRows = FullScan(y).bytes

\* a row on which the early exit actually skipped a pixel, and which was kept
C8_Witness ==
  /\ pQuantizationFactor > 0 /\ pMaxDifferentPixels = 0 /\ width >= 2 /\ y >= 1
  /\ Cardinality(DistinctKeys(data, width, 0, pQuantizationFactor)) = 2
  /\ Cardinality(ScanRow(data, width, 0, pMaxDifferentPixels, pQuantizationFactor)) = 1
  /\ keptRows # <<>> /\ keptRows[1] = 0

AllPixelStarts == UNION { PixelStarts(width, yy) : yy \in 0 .. height - 1 }

AlphaValues == {0, 128, 255}

(* C10: for every factor > 0 two pixels get the same packed key iff their  *)
(* three quantized colour channels are equal, and the alpha byte does not  *)
(* influence the key.                                                      *)
C10_KeyInjective ==
  pQuantizationFactor > 0 =>
    \A p1 \in AllPixelStarts :
      /\ \A p2 \in AllPixelStarts :
           (PixelValue(data, p1, pQuantizationFactor) = PixelValue(data, p2, pQuantizationFactor))
             <=> (Triple(data, p1, pQuantizationFactor) = Triple(data, p2, pQuantizationFactor))
      /\ \A a \in AlphaValues :
           PixelValue([data EXCEPT ![p1 + 4] = a], p1, pQuantizationFactor)
             = PixelValue(data, p1, pQuantizationFactor)
(* ---------------------------- SpecApp --------------------------------- *)
Shade(i) == <<16 * i, 0, 0, 255>>

\* a 6x2 screenshot: six colours in row 0, a black/white split in row 1
FileA ==
  [decodable |-> TRUE, width |-> 6, height |-> 2,
   data |-> Flatten(<<Shade(0), Shade(1), Shade(2), Shade(3), Shade(4), Shade(5),
                      Shade(0), Shade(0), Shade(0), Shade(15), Shade(15), Shade(15)>>, 1)]

\* a 7x1 image with seven colours
FileB ==
  [decodable |-> TRUE, width |-> 7, height |-> 1,
   data |-> Flatten(<<Shade(0), Shade(1), Shade(2), Shade(3), Shade(4), Shade(5), Shade(6)>>, 1)]

\* a file that is not an image
FileC == [decodable |-> FALSE, width |-> 0, height |-> 0, data |-> <<>>]

\* the files the user can pick, by name
Files == {"A", "B", "C"}

Contents(f) == IF f = "A" THEN FileA ELSE IF f = "B" THEN FileB ELSE FileC

\* positions of the range input that are exercised
RangeInputs == {v \in {0, InitialMaxDifferentPixels, 6} : RangeMin <= v /\ v <= RangeMax}

CoreIdle ==
  /\ width = 1 /\ height = 1 /\ data = <<0, 16, 0, 255>>
  /\ pMaxDifferentPixels = 10 /\ pQuantizationFactor = DefaultQuantizationFactor
  /\ pc = "idle" /\ y = 0 /\ nonBlankRows = <<>> /\ keptRows = <<>>
  /\ newHeight = -1 /\ result = null /\ previous = <<>>

\* state after the first render (lines 10-19); the mount effect returns at line 23
InitApp == CoreIdle /\ AppIdle

KeepTimers(ts, id) == ts

\* clearTimeout(timeout), line 24
ClearTimeout(ts, id) == { t \in ts : t.id # id }

\* the effect of lines 22-36 run for a render with the given state
Effect(buf, n, ch) ==
  IF buf = null
    THEN UNCHANGED <<timeout, timers, nextId>>
    ELSE /\ timers' = ClearTimeout(timers, timeout)
                        \cup {[id |-> nextId, buffer |-> buf, n |-> n, change |-> ch]}
         /\ timeout' = nextId
         /\ nextId' = nextId + 1

\* onChange of the file input up to the await (lines 51-54)
ChooseFile(f) ==
  /\ changes + Cardinality(reads) < MaxChanges
  /\ reads' = reads \cup {[id |-> nextId, file |-> f]}
  /\ nextId' = nextId + 1
  /\ UNCHANGED <<inputImageBuffer, outputImageBlob, maxDifferentPixels, timeout, timers,
                 calls, changes, started, errorLog, coreVars>>

\* the read completes (184), setInputImageBuffer (56), render, effect
FileRead(r) ==
  /\ r \in reads
  /\ reads' = reads \ {r}
  /\ inputImageBuffer' = [kind |-> "buffer", id |-> r.id, file |-> r.file]
  /\ changes' = changes + 1
  /\ Effect(inputImageBuffer', maxDifferentPixels, changes')
  /\ UNCHANGED <<outputImageBlob, maxDifferentPixels, calls, started, errorLog, coreVars>>

\* onChange of the range input (66), render, effect
SetThreshold(v) ==
  /\ changes + Cardinality(reads) < MaxChanges
  /\ v # maxDifferentPixels
  /\ maxDifferentPixels' = v
  /\ changes' = changes + 1
  /\ Effect(inputImageBuffer, v, changes')
  /\ UNCHANGED <<inputImageBuffer, outputImageBlob, reads, calls, started, errorLog, coreVars>>

\* the 333 ms have passed: the callback of line 25 calls processImage, which
\* runs up to the await of line 107
TimerFires(t) ==
  /\ t \in timers
  /\ timers' = timers \ {t}
  /\ calls' = calls \cup {[id |-> t.id, buffer |-> t.buffer, n |-> t.n, pc |-> "loading", blob |-> null]}
  /\ started' = Append(started, [id |-> t.id, buffer |-> t.buffer, n |-> t.n, change |-> t.change,
                                 latest |-> changes])
  /\ UNCHANGED <<inputImageBuffer, outputImageBlob, maxDifferentPixels, timeout, reads,
                 nextId, changes, errorLog, coreVars>>

RejectClearsOutput(c) ==
  /\ calls' = calls \ {c}
  /\ errorLog' = errorLog \o <<[call |-> c.id, at |-> "processImage", seen |-> changes],
                                [call |-> c.id, at |-> "effect", seen |-> changes]>>
  /\ outputImageBlob' = null
  /\ UNCHANGED <<inputImageBuffer, maxDifferentPixels>>

\* processImage catches, logs and rethrows (173-176); the effect's catch logs (32-34)
Reject(c) ==
  /\ calls' = calls \ {c}
  /\ errorLog' = errorLog \o <<[call |-> c.id, at |-> "processImage", seen |-> changes],
                                [call |-> c.id, at |-> "effect", seen |-> changes]>>
  /\ UNCHANGED <<inputImageBuffer, outputImageBlob, maxDifferentPixels>>

\* what lines 122-158 compute for a call of the App (the factor is defaulted)
Compacted(file, n) ==
  LET rows == RowLoop(<<>>, file.data, file.width, file.height, n, DefaultQuantizationFactor, 0)
  IN [width |-> file.width, height |-> NewHeight(rows, file.width), bytes |-> rows]

\* img.onerror (202-205): the buffer does not decode
ImageError(c) ==
  /\ c \in calls /\ c.pc = "loading"
  /\ ~Contents(c.buffer.file).decodable
  /\ Reject(c)
  /\ UNCHANGED <<timeout, timers, reads, nextId, changes, started, coreVars>>

\* img.onload (197-200), then lines 108-170 run without suspension
ImageLoaded(c) ==
  /\ c \in calls /\ c.pc = "loading"
  /\ Contents(c.buffer.file).decodable
  /\ LET out == Compacted(Contents(c.buffer.file), c.n) IN
       IF CreateImageDataThrows(out.width, out.height)
         THEN Reject(c)
         ELSE /\ calls' = (calls \ {c}) \cup {[c EXCEPT !.pc = "encode", !.blob = out]}
              /\ UNCHANGED <<inputImageBuffer, outputImageBlob, maxDifferentPixels, errorLog>>
  /\ UNCHANGED <<timeout, timers, reads, nextId, changes, started, coreVars>>

\* toBlob calls back (171), the promise resolves, setOutputImageBlob (28-30)
BlobReady(c) ==
  /\ c \in calls /\ c.pc = "encode"
  /\ calls' = calls \ {c}
  /\ outputImageBlob' = [kind |-> "url", call |-> c.id, width |-> c.blob.width,
                         height |-> c.blob.height, bytes |-> c.blob.bytes]
  /\ UNCHANGED <<inputImageBuffer, maxDifferentPixels, timeout, timers, reads, nextId,
                 changes, started, errorLog, coreVars>>

NextApp ==
  \/ \E f \in Files : ChooseFile(f)
  \/ \E r \in reads : FileRead(r)
  \/ \E v \in RangeInputs : SetThreshold(v)
  \/ \E t \in timers : TimerFires(t)
  \/ \E c \in calls : ImageError(c)
  \/ \E c \in calls : ImageLoaded(c)
  \/ \E c \in calls : BlobReady(c)

SpecApp == InitApp /\ [][NextApp]_vars

StartsOf(ch) == { k \in 1 .. Len(started) : started[k].change = ch }

Debounced ==
  /\ Cardinality(timers) <= 1
  /\ \A t \in timers :
       t.id = timeout /\ t.change = changes /\ t.buffer = inputImageBuffer
       /\ t.n = maxDifferentPixels /\ StartsOf(t.change) = {}
  /\ \A k \in 1 .. Len(started) :
       started[k].change = started[k].latest /\ Cardinality(StartsOf(started[k].change)) = 1

LatestStartedOnce ==
  \E k \in 1 .. Len(started) :
    /\ StartsOf(changes) = {k}
    /\ started[k].buffer = inputImageBuffer /\ started[k].n = maxDifferentPixels

(* C5 as stated: at most one timer is pending, a superseded change never   *)
(* starts processImage, and after any burst of changes, once no timer is   *)
(* pending, processImage has been started exactly once for the latest      *)
(* change with the current image and threshold.                            *)
C5_Original ==
  /\ Debounced
  /\ (changes > 0 /\ timers = {}) => LatestStartedOnce

(* C5 amended: the same, for changes made once an image has been loaded;   *)
(* while inputImageBuffer is null a threshold change schedules no timer    *)
(* and starts nothing.                                                     *)
C5_Debounce ==
  /\ Debounced
  /\ (inputImageBuffer # null /\ timers = {}) => LatestStartedOnce
  /\ inputImageBuffer = null => timers = {} /\ started = <<>>

\* an upload followed by a threshold change before the timer fired, then the
\* quiet period
C5_Witness ==
  /\ changes = 2 /\ timers = {} /\ Len(started) = 1 /\ started[1].change = 2
  /\ inputImageBuffer # null /\ maxDifferentPixels # InitialMaxDifferentPixels

(* C6: a failing call is logged and leaves outputImageBlob,                *)
(* inputImageBuffer and maxDifferentPixels as they were; afterwards a      *)
(* change still schedules a timer whose call runs.                         *)
C6_FailureKeepsState ==
  /\ [][Len(errorLog') > Len(errorLog) =>
          /\ outputImageBlob' = outputImageBlob
          /\ inputImageBuffer' = inputImageBuffer
          /\ maxDifferentPixels' = maxDifferentPixels
          /\ Len(errorLog') = Len(errorLog) + 2]_vars
  /\ [](errorLog # <<>> =>
          /\ \A c \in calls : \A k \in 1 .. Len(errorLog) : errorLog[k].call # c.id
          /\ (inputImageBuffer # null /\ timers = {}) => LatestStartedOnce)

\* a pass failed while an output was shown, and a later pass replaced the output
C6_Witness ==
  /\ errorLog # <<>>
  /\ outputImageBlob # null
  /\ \E k \in 1 .. Len(started) :
       started[k].change > errorLog[1].seen /\ outputImageBlob.call = started[k].id

Quiescent == timers = {} /\ calls = {} /\ reads = {}

(* C9: once all timers have fired and all started calls have settled       *)
(* successfully, the output shown is the one computed from the current     *)
(* image and threshold.                                                    *)
C9_LatestWins ==
  (Quiescent /\ errorLog = <<>> /\ started # <<>>) =>
     /\ outputImageBlob # null
     /\ LET out == Compacted(Contents(inputImageBuffer.file), maxDifferentPixels) IN
          /\ outputImageBlob.width = out.width
          /\ outputImageBlob.height = out.height
          /\ outputImageBlob.bytes = out.bytes
====
